---- MODULE Spec2Model ----
(***************************************************************************)
(* Model of the TeXCount word counter of LaTeX-Workshop                    *)
(* (src/src/extras/counter.ts) and of the print-shortcut guard patched     *)
(* into the PDF viewer (src/dev/viewer/viewer.mjs.diff).                   *)
(*                                                                         *)
(* JavaScript strings are modelled as sequences of pieces, so that         *)
(* concatenation (template strings, +=) is sequence concatenation and a    *)
(* regular-expression capture is a subsequence.  The literal texts the     *)
(* regular expressions look for are single pieces; digits are one piece    *)
(* each.  The event loop is modelled by one action per callback; promise   *)
(* continuations are queued in microtasks and run before any other         *)
(* callback.                                                               *)
(***************************************************************************)
EXTENDS Integers, Sequences, FiniteSets, TLC

\* ------------------------------------------------------------------ bounds
\* number of processes in flight at the same time, while the configuration
\* and the active editor change
MaxInFlight == 1
\* number of processes in flight at the same time, under a fixed configuration
MaxRuns == 2
\* number of pending setTimeout callbacks the model keeps
MaxTimers == 2

\* ------------------------------------------------------- strings and pieces
WordsLit == "Words in text: "
FloatsLit == "Number of floats/tables/figures: "
DigitSeq == <<"0", "1", "2", "3", "4", "5", "6", "7", "8", "9">>
Digits == {DigitSeq[i] : i \in 1..Len(DigitSeq)}
Range(s) == {s[i] : i \in 1..Len(s)}

\* value of one decimal digit
DigitVal(d) == (CHOOSE i \in 1..Len(DigitSeq) : DigitSeq[i] = d) - 1

\* parseInt of an all-digit capture: NaN for the empty string
NaN == -1
RECURSIVE DigitsValue(_)
DigitsValue(ds) ==
    IF ds = <<>> THEN 0
    ELSE 10 * DigitsValue(SubSeq(ds, 1, Len(ds) - 1)) + DigitVal(ds[Len(ds)])
ParseInt(ds) == IF ds = <<>> THEN NaN ELSE DigitsValue(ds)
\* x > n in JavaScript: false when x is NaN
Gt(x, n) == x # NaN /\ x > n

\* the longest run of digits of s that starts at index i: the capture ([0-9]*)
RECURSIVE DigitRun(_, _)
DigitRun(s, i) ==
    IF i > Len(s) \/ s[i] \notin Digits THEN <<>>
    ELSE <<s[i]>> \o DigitRun(s, i + 1)

\* /lit([0-9]*)/g.exec(s): <<>> for null, else <<capture>> of the leftmost match
RegexExec(lit, s) ==
    IF lit \notin Range(s) THEN <<>>
    ELSE LET i == CHOOSE k \in 1..Len(s) :
                      s[k] = lit /\ \A j \in 1..(k - 1) : s[j] # lit
         IN  <<DigitRun(s, i + 1)>>

\* path.basename and path.dirname of a path given as its components
Basename(file) == file[Len(file)]
Dirname(file) == SubSeq(file, 1, Len(file) - 1)

\* ------------------------------------------------------ the parse of stdout
ErrorMessage == "TeXCount failed. Please refer to LaTeX Workshop Output for details."

\* floatMsg with the plural chosen by > 0 instead of > 1
FloatMsgPluralOne(floats) ==
    IF floats # <<>> /\ Gt(ParseInt(floats[1]), 0)
    THEN <<"and ">> \o floats[1] \o <<" float">>
         \o (IF Gt(ParseInt(floats[1]), 0) THEN <<"s">> ELSE <<>>)
         \o <<" (tables, figures, etc.) ">>
    ELSE <<>>

\* floatMsg of the exit handler, from the result of the floats pattern
FloatMsg(floats) ==
    IF floats # <<>> /\ Gt(ParseInt(floats[1]), 0)
    THEN <<"and ">> \o floats[1] \o <<" float">>
         \o (IF Gt(ParseInt(floats[1]), 1) THEN <<"s">> ELSE <<>>)
         \o <<" (tables, figures, etc.) ">>
    ELSE <<>>

\* the template string stored in texCountMessage
TeXCountMessage(words1, floatMsg, merge) ==
    <<"There are ">> \o words1 \o <<" words ">> \o floatMsg \o <<"in the ">>
    \o <<IF merge THEN "LaTeX project" ELSE "opened LaTeX file">> \o <<".">>

\* the exit handler, were only exit code 1 taken as a failure
OnExitOnlyCode1(exitCode, stdout, merge, wc, msg) ==
    IF exitCode = 1
    THEN [wordCount |-> wc, texCountMessage |-> msg, resolved |-> FALSE,
          errors |-> <<ErrorMessage>>, log |-> <<"Cannot count words">>]
    ELSE LET words == RegexExec(WordsLit, stdout)
             floats == RegexExec(FloatsLit, stdout)
         IN  IF words # <<>>
             THEN [wordCount |-> words[1],
                   texCountMessage |-> TeXCountMessage(words[1], FloatMsg(floats), merge),
                   resolved |-> TRUE, errors |-> <<>>, log |-> <<>>]
             ELSE [wordCount |-> wc, texCountMessage |-> msg, resolved |-> FALSE,
                   errors |-> <<>>, log |-> <<>>]

\* the exit handler, were resolve(true) called outside of if (words)
OnExitAlwaysResolves(exitCode, stdout, merge, wc, msg) ==
    IF exitCode # 0
    THEN [wordCount |-> wc, texCountMessage |-> msg, resolved |-> FALSE,
          errors |-> <<ErrorMessage>>, log |-> <<"Cannot count words">>]
    ELSE LET words == RegexExec(WordsLit, stdout)
             floats == RegexExec(FloatsLit, stdout)
         IN  IF words # <<>>
             THEN [wordCount |-> words[1],
                   texCountMessage |-> TeXCountMessage(words[1], FloatMsg(floats), merge),
                   resolved |-> TRUE, errors |-> <<>>, log |-> <<>>]
             ELSE [wordCount |-> wc, texCountMessage |-> msg, resolved |-> TRUE,
                   errors |-> <<>>, log |-> <<>>]

\* the exit handler, were the message stored only when floats are reported
OnExitMessageIfFloats(exitCode, stdout, merge, wc, msg) ==
    IF exitCode # 0
    THEN [wordCount |-> wc, texCountMessage |-> msg, resolved |-> FALSE,
          errors |-> <<ErrorMessage>>, log |-> <<"Cannot count words">>]
    ELSE LET words == RegexExec(WordsLit, stdout)
             floats == RegexExec(FloatsLit, stdout)
         IN  IF words # <<>>
             THEN [wordCount |-> words[1],
                   texCountMessage |->
                       IF floats # <<>>
                       THEN TeXCountMessage(words[1], FloatMsg(floats), merge)
                       ELSE msg,
                   resolved |-> TRUE, errors |-> <<>>, log |-> <<>>]
             ELSE [wordCount |-> wc, texCountMessage |-> msg, resolved |-> FALSE,
                   errors |-> <<>>, log |-> <<>>]

\* the exit handler, were a result stored only while none is stored yet
OnExitFirstWins(exitCode, stdout, merge, wc, msg) ==
    IF exitCode # 0
    THEN [wordCount |-> wc, texCountMessage |-> msg, resolved |-> FALSE,
          errors |-> <<ErrorMessage>>, log |-> <<"Cannot count words">>]
    ELSE LET words == RegexExec(WordsLit, stdout)
             floats == RegexExec(FloatsLit, stdout)
         IN  IF words # <<>>
             THEN [wordCount |-> IF wc = <<>> THEN words[1] ELSE wc,
                   texCountMessage |->
                       IF wc = <<>>
                       THEN TeXCountMessage(words[1], FloatMsg(floats), merge)
                       ELSE msg,
                   resolved |-> TRUE, errors |-> <<>>, log |-> <<>>]
             ELSE [wordCount |-> wc, texCountMessage |-> msg, resolved |-> FALSE,
                   errors |-> <<>>, log |-> <<>>]

\* the 'exit' handler of runTeXCount as a function of what it reads: the new
\* wordCount and texCountMessage, whether the promise is resolved, and the
\* error notifications and error log lines it produces
OnExit(exitCode, stdout, merge, wc, msg) ==
    IF exitCode # 0
    THEN [wordCount |-> wc, texCountMessage |-> msg, resolved |-> FALSE,
          errors |-> <<ErrorMessage>>, log |-> <<"Cannot count words">>]
    ELSE LET words == RegexExec(WordsLit, stdout)
             floats == RegexExec(FloatsLit, stdout)
         IN  IF words # <<>>
             THEN [wordCount |-> words[1],
                   texCountMessage |-> TeXCountMessage(words[1], FloatMsg(floats), merge),
                   resolved |-> TRUE, errors |-> <<>>, log |-> <<>>]
             ELSE [wordCount |-> wc, texCountMessage |-> msg, resolved |-> FALSE,
                   errors |-> <<>>, log |-> <<>>]

\* the error handler, were it to resolve the promise
OnErrorResolves ==
    [errors |-> <<ErrorMessage>>, log |-> <<"Cannot count words.">>, resolved |-> TRUE]

\* the 'error' handler of runTeXCount: notifications and log lines
OnError ==
    [errors |-> <<ErrorMessage>>, log |-> <<"Cannot count words.">>, resolved |-> FALSE]

\* ----------------------------------------------------------- configuration
\* workspace folders: the scopes a configuration is resolved for
Folders == {"A", "B"}
\* the folders whose settings the user edits; the others keep the defaults
EditedFolders == {"A"}
\* lw.manager.getWorkspaceFolderRootDir()
RootDir == "A"

\* the values of the five settings the counter reads
DefaultConfig ==
    [autorun |-> "never", interval |-> 1000, args |-> <<>>,
     path |-> "texcount", docker |-> FALSE]
Configs ==
    { DefaultConfig,
      [autorun |-> "onSave", interval |-> 500, args |-> <<"-merge", "-brief">>,
       path |-> "/opt/texcount.pl", docker |-> TRUE] }

\* the documents an editor can show
Documents ==
    { [uri |-> <<"A", "main.tex">>, languageId |-> "latex", folder |-> "A"],
      [uri |-> <<"B", "notes.md">>, languageId |-> "markdown", folder |-> "B"] }
\* vscode.window.activeTextEditor: <<>> for undefined, else <<document>>
Editors == {<<>>} \cup {<<d>> : d \in Documents}

\* lw.manager.hasTexId
HasTexId(languageId) ==
    languageId \in {"tex", "latex", "latex-expl3", "doctex", "jlweave", "rsweave"}

\* the files a save or a manual count is about
Files == {<<"A", "main.tex">>, <<"A", "sec", "intro.tex">>}

\* process.platform, as read when a command is built
Platforms == {"win32", "linux"}

\* what a process writes to its stdout, as the chunks of its 'data' events
Header == <<"File: main.tex", "\n">>
Counts == <<WordsLit, "1", "0", "0", "\n", FloatsLit, "3", "\n">>
Writes == { <<>>, <<Header>>, <<Counts>>, <<Header, Counts>> }
\* the chunks of every process that wrote the chunk sequence written so far
NextChunks(writes, written) ==
    { w[Len(written) + 1] : w \in { v \in writes : /\ Len(v) > Len(written)
                                                    /\ SubSeq(v, 1, Len(written)) = written } }

ExitCodes == {0, 1, 2}

\* -------------------------------------------------------------------- state
VARIABLES
    settings,              \* the configuration store: folder -> the five settings
    activeTextEditor,      \* vscode.window.activeTextEditor
    useDocker, disableCountAfterSave, autoRunEnabled, autoRunInterval,
    commandArgs, commandPath, texCountMessage, wordCount,   \* the Counter's fields
    status,                \* the status bar item: visible, text, tooltip
    timers,                \* pending setTimeout callbacks, by their delay
    procs,                 \* the processes spawned since the oldest one still in
                           \* flight, in spawn order (one that wrote its result
                           \* is kept as a "resolved" entry)
    microtasks,            \* the continuations of resolved promises, ready to
                           \* run: each with the run (kind, merge, stdout) it is of
    event,                 \* the callback that ran last
    effects,               \* what the last callback did to the outside
    before,                \* the fields the last callback found
    viewer                 \* the window of the PDF viewer, if one is open, with
                           \* its last keydown event: <<>> or <<window>>

config == <<useDocker, autoRunEnabled, autoRunInterval, commandArgs, commandPath>>
vars == <<settings, activeTextEditor, useDocker, disableCountAfterSave,
          autoRunEnabled, autoRunInterval, commandArgs, commandPath,
          texCountMessage, wordCount, status, timers, procs, microtasks,
          event, effects, before, viewer>>

\* a callback and no effect on the outside
Ev(type) ==
    [type |-> type, kind |-> "", merge |-> FALSE, code |-> 0, stdout |-> <<>>,
     state |-> "", overtaken |-> FALSE]
\* the fields as a callback finds them
Fields ==
    [wordCount |-> wordCount, texCountMessage |-> texCountMessage,
     disableCountAfterSave |-> disableCountAfterSave, timers |-> Len(timers),
     inFlight |-> Len(SelectSeq(procs, LAMBDA p : p.state \in {"running", "errored"}))]
NoEffects ==
    [spawned |-> <<>>, errors |-> <<>>, info |-> <<>>, log |-> <<>>,
     refreshed |-> FALSE]

\* ------------------------------------------------------ the Counter's methods
\* getWorkspace(): the scope of the active document, else the root folder
GetWorkspace(editor) == IF editor # <<>> THEN editor[1].folder ELSE RootDir

\* loadConfiguration, were docker.enabled not read (useDocker stays false)
LoadConfigurationNoDocker(conf) ==
    [autoRunEnabled |-> (conf.autorun = "onSave"),
     autoRunInterval |-> conf.interval,
     commandArgs |-> conf.args,
     commandPath |-> conf.path,
     useDocker |-> FALSE]

\* loadConfiguration: the five fields as read from a configuration
LoadConfiguration(conf) ==
    [autoRunEnabled |-> (conf.autorun = "onSave"),
     autoRunInterval |-> conf.interval,
     commandArgs |-> conf.args,
     commandPath |-> conf.path,
     useDocker |-> conf.docker]

\* updateWordCount, were the tooltip left as it is
UpdateWordCountNoTooltip(st, wc, msg) ==
    IF wc = <<>>
    THEN [st EXCEPT !.text = <<>>, !.tooltip = <<>>]
    ELSE [st EXCEPT !.text = wc \o <<" words">>]

\* updateWordCount: the status item after the refresh
UpdateWordCount(st, wc, msg) ==
    IF wc = <<>>
    THEN [st EXCEPT !.text = <<>>, !.tooltip = <<>>]
    ELSE [st EXCEPT !.text = wc \o <<" words">>, !.tooltip = msg]

\* updateStatusVisibility, were the item shown without updateWordCount()
UpdateStatusVisibilityNoRefresh(st, enabled, wc, msg) ==
    IF enabled
    THEN [st EXCEPT !.visible = TRUE]
    ELSE [st EXCEPT !.visible = FALSE]

\* updateStatusVisibility, were the item not hidden when auto-run is off
UpdateStatusVisibilityNoHide(st, enabled, wc, msg) ==
    IF enabled
    THEN [UpdateWordCount(st, wc, msg) EXCEPT !.visible = TRUE]
    ELSE st

\* updateStatusVisibility: the status item afterwards
UpdateStatusVisibility(st, enabled, wc, msg) ==
    IF enabled
    THEN [UpdateWordCount(st, wc, msg) EXCEPT !.visible = TRUE]
    ELSE [st EXCEPT !.visible = FALSE]

\* the command of runTeXCount
Command(docker, path, plat) ==
    IF docker
    THEN IF plat = "win32"
         THEN <<"extensionRoot", "scripts", "texcount.bat">>
         ELSE <<"extensionRoot", "scripts", "texcount">>
    ELSE <<path>>

\* the argument list of runTeXCount
Args(configured, merge, file) ==
    LET args == IF merge /\ "-merge" \notin Range(configured)
                THEN Append(configured, "-merge")
                ELSE configured
    IN  Append(args, Basename(file))

\* the argument building, were args the stored array itself and no copy of it
BuildArgsAliased(configured, merge, file) ==
    [args |-> Args(configured, merge, file),
     commandArgs |-> Args(configured, merge, file)]

\* const args = Array.from(this.commandArgs), and the pushes onto it: the
\* arguments passed to spawn, and this.commandArgs afterwards
BuildArgs(configured, merge, file) ==
    [args |-> Args(configured, merge, file), commandArgs |-> configured]

\* the log lines of runTeXCount up to the spawn
SpawnLog(docker) ==
    (IF docker THEN <<"Use Docker to invoke the command.">> ELSE <<>>)
    \o <<"Count words using command.">>

\* runTeXCount up to the return of its promise: the process spawned
SpawnedProc(kind, merge) ==
    [kind |-> kind, merge |-> merge, state |-> "running", stdout |-> <<>>,
     written |-> <<>>]
SpawnCall(merge, file, plat) ==
    [command |-> Command(useDocker, commandPath, plat),
     args |-> BuildArgs(commandArgs, merge, file).args,
     cwd |-> Dirname(file)]

\* --------------------------------------------------------------------- Init
\* the state the constructor leaves: configuration loaded for getWorkspace(),
\* updateStatusVisibility() applied to the freshly created (hidden) item
Init ==
    /\ settings \in {s \in [Folders -> Configs] :
                        \A f \in Folders \ EditedFolders : s[f] = DefaultConfig}
    /\ activeTextEditor \in Editors
    /\ LET c == LoadConfiguration(settings[GetWorkspace(activeTextEditor)])
       IN  /\ autoRunEnabled = c.autoRunEnabled
           /\ autoRunInterval = c.autoRunInterval
           /\ commandArgs = c.commandArgs
           /\ commandPath = c.commandPath
           /\ useDocker = c.useDocker
           /\ status = UpdateStatusVisibility(
                  [visible |-> FALSE, text |-> <<>>, tooltip |-> <<>>],
                  c.autoRunEnabled, <<>>, <<>>)
           /\ effects = [NoEffects EXCEPT !.refreshed = c.autoRunEnabled]
    /\ disableCountAfterSave = FALSE
    /\ texCountMessage = <<>>
    /\ wordCount = <<>>
    /\ timers = <<>>
    /\ procs = <<>>
    /\ microtasks = <<>>
    /\ event = Ev("constructor")
    /\ before = Fields
    /\ viewer = <<>>

\* ------------------------------------------------------------------ actions
\* e.affectsConfiguration('latex-workshop.texcount', scope)
AffectsTexcount(old, new, scope) ==
    \E k \in {"autorun", "interval", "args", "path"} : old[scope][k] # new[scope][k]
\* e.affectsConfiguration('latex-workshop.docker.enabled')
AffectsDocker(old, new) == \E f \in Folders : old[f].docker # new[f].docker

\* this.loadConfiguration(scope); this.updateStatusVisibility()
LoadAndUpdate(conf) ==
    LET c == LoadConfiguration(conf)
    IN  /\ autoRunEnabled' = c.autoRunEnabled
        /\ autoRunInterval' = c.autoRunInterval
        /\ commandArgs' = c.commandArgs
        /\ commandPath' = c.commandPath
        /\ useDocker' = c.useDocker
        /\ status' = UpdateStatusVisibility(status, c.autoRunEnabled, wordCount,
                                            texCountMessage)
        /\ effects' = [NoEffects EXCEPT !.refreshed = c.autoRunEnabled]

\* the settings of one folder change (conf = settings[folder]: a setting that
\* is none of the five changes): the onDidChangeConfiguration listener
DidChangeConfiguration(folder, conf) ==
    /\ microtasks = <<>>
    /\ settings' = [settings EXCEPT ![folder] = conf]
    /\ LET scope == GetWorkspace(activeTextEditor)
       IN  IF AffectsTexcount(settings, settings', scope)
              \/ AffectsDocker(settings, settings')
           THEN LoadAndUpdate(settings'[scope])
           ELSE UNCHANGED <<config, status>> /\ effects' = NoEffects
    /\ event' = Ev("configuration")
    /\ before' = Fields
    /\ UNCHANGED <<viewer, activeTextEditor, disableCountAfterSave,
                   texCountMessage, wordCount, timers, procs, microtasks>>

\* another editor (or none) becomes active: the onDidChangeActiveTextEditor listener
DidChangeActiveTextEditor(e) ==
    /\ microtasks = <<>>
    /\ e # activeTextEditor
    /\ activeTextEditor' = e
    /\ IF e # <<>> /\ HasTexId(e[1].languageId)
       THEN LoadAndUpdate(settings[e[1].folder])
       ELSE /\ status' = [status EXCEPT !.visible = FALSE]
            /\ effects' = NoEffects
            /\ UNCHANGED config
    /\ event' = Ev("editor")
    /\ before' = Fields
    /\ UNCHANGED <<viewer, settings, disableCountAfterSave, texCountMessage,
                   wordCount, timers, procs, microtasks>>

\* countOnSaveIfEnabled, were the reset not scheduled
SetTimeoutNever(pending, delay) == pending

\* setTimeout(callback, delay): the pending callbacks afterwards
SetTimeout(pending, delay) == Append(pending, delay)

\* countOnSaveIfEnabled, were disableCountAfterSave not looked at
SaveDecisionNoDebounce(enabled, disabled) ==
    IF ~enabled THEN "off" ELSE "run"

\* countOnSaveIfEnabled(file): what it does, as a function of the two flags
\*   "off": auto-run disabled; "debounced": suppressed; "run": starts a run
SaveDecision(enabled, disabled) ==
    IF ~enabled THEN "off" ELSE IF disabled THEN "debounced" ELSE "run"

CountOnSaveIfEnabled(file, plat, cap) ==
    /\ microtasks = <<>>
    /\ LET d == SaveDecision(autoRunEnabled, disableCountAfterSave)
       IN  /\ d = "run" => Len(procs) < cap /\ Len(timers) < MaxTimers
           /\ disableCountAfterSave' = (IF d = "run" THEN TRUE ELSE disableCountAfterSave)
           /\ timers' = (IF d = "run" THEN SetTimeout(timers, autoRunInterval)
                         ELSE timers)
           /\ procs' = (IF d = "run" THEN Append(procs, SpawnedProc("save", TRUE))
                        ELSE procs)
           /\ commandArgs' = (IF d = "run"
                              THEN BuildArgs(commandArgs, TRUE, file).commandArgs
                              ELSE commandArgs)
           /\ effects' =
                 CASE d = "off" -> NoEffects
                   [] d = "debounced" ->
                        [NoEffects EXCEPT !.log =
                            <<"Auto texcount is temporarily disabled during a second.">>]
                   [] d = "run" ->
                        [NoEffects EXCEPT
                            !.log = <<"Auto texcount started on saving file">>
                                    \o SpawnLog(useDocker),
                            !.spawned = <<SpawnCall(TRUE, file, plat)>>]
    /\ event' = [Ev("save") EXCEPT !.kind = "save"]
    /\ before' = Fields
    /\ UNCHANGED <<viewer, settings, activeTextEditor, useDocker, autoRunEnabled,
                   autoRunInterval, commandPath, texCountMessage,
                   wordCount, status, microtasks>>

\* count(file, merge), were it suppressed like a save while the flag is set
CountDebounced(file, merge, plat, cap) ==
    /\ microtasks = <<>>
    /\ Len(procs) < cap
    /\ procs' = (IF disableCountAfterSave THEN procs
                 ELSE Append(procs, SpawnedProc("manual", merge)))
    /\ effects' = (IF disableCountAfterSave THEN NoEffects
                   ELSE [NoEffects EXCEPT !.log = SpawnLog(useDocker),
                                          !.spawned = <<SpawnCall(merge, file, plat)>>])
    /\ event' = [Ev("count") EXCEPT !.kind = "manual", !.merge = merge]
    /\ before' = Fields
    /\ UNCHANGED <<viewer, settings, activeTextEditor, config,
                   disableCountAfterSave, texCountMessage, wordCount, status,
                   timers, microtasks>>

\* count(file, merge): the manual count
Count(file, merge, plat, cap) ==
    /\ microtasks = <<>>
    /\ Len(procs) < cap
    /\ procs' = Append(procs, SpawnedProc("manual", merge))
    /\ commandArgs' = BuildArgs(commandArgs, merge, file).commandArgs
    /\ effects' = [NoEffects EXCEPT !.log = SpawnLog(useDocker),
                                    !.spawned = <<SpawnCall(merge, file, plat)>>]
    /\ event' = [Ev("count") EXCEPT !.kind = "manual", !.merge = merge]
    /\ before' = Fields
    /\ UNCHANGED <<viewer, settings, activeTextEditor, useDocker, autoRunEnabled,
                   autoRunInterval, commandPath,
                   disableCountAfterSave, texCountMessage, wordCount, status,
                   timers, microtasks>>

\* the continuation attached to the promise of a run
Then(p) == [kind |-> p.kind, merge |-> p.merge, stdout |-> p.stdout]

\* proc.stdout.on('data'): stdout += newStdout
StdoutData(i, chunk) ==
    /\ microtasks = <<>>
    /\ procs[i].state = "running"
    /\ procs' = [procs EXCEPT ![i].stdout = @ \o chunk,
                              ![i].written = Append(@, chunk)]
    /\ event' = Ev("data")
    /\ before' = Fields
    /\ effects' = NoEffects
    /\ UNCHANGED <<viewer, settings, activeTextEditor, config,
                   disableCountAfterSave, texCountMessage, wordCount, status,
                   timers, microtasks>>

\* proc.on('error'): the process could not be launched (it wrote nothing)
ProcError(i) ==
    /\ microtasks = <<>>
    /\ procs[i].state = "running"
    /\ procs[i].written = <<>>
    /\ procs' = [procs EXCEPT ![i].state = "errored"]
    /\ event' = [Ev("error") EXCEPT !.kind = procs[i].kind, !.merge = procs[i].merge]
    /\ before' = Fields
    /\ effects' = [NoEffects EXCEPT !.errors = OnError.errors, !.log = OnError.log]
    /\ microtasks' = IF OnError.resolved THEN <<Then(procs[i])>> ELSE microtasks
    /\ UNCHANGED <<viewer, settings, activeTextEditor, config,
                   disableCountAfterSave, texCountMessage, wordCount, status,
                   timers>>

\* the sequence s without its i-th element
Remove(s, i) == SubSeq(s, 1, i - 1) \o SubSeq(s, i + 1, Len(s))
InFlight(p) == p.state \in {"running", "errored"}
\* procs without the entries that precede the oldest process in flight
RECURSIVE Trim(_)
Trim(s) == IF s # <<>> /\ ~InFlight(Head(s)) THEN Trim(Tail(s)) ELSE s
\* procs once its i-th process is over, were a failed run started again
OverRetry(i, resolved) ==
    IF resolved
    THEN Trim([procs EXCEPT ![i] = [kind |-> "", merge |-> FALSE, state |-> "resolved",
                                    stdout |-> <<>>, written |-> <<>>]])
    ELSE [procs EXCEPT ![i] = SpawnedProc(procs[i].kind, procs[i].merge)]

\* procs once its i-th process is over: a process that wrote the result stays,
\* as a mark, while an older process is still in flight
Over(i, resolved) ==
    IF resolved
    THEN Trim([procs EXCEPT ![i] = [kind |-> "", merge |-> FALSE, state |-> "resolved",
                                    stdout |-> <<>>, written |-> <<>>]])
    ELSE Trim(Remove(procs, i))

\* the exit handler, were the continuation of its promise run as a task of
\* its own, after whatever callbacks are due before it
ProcExitDeferred(i, exitCode) ==
    /\ InFlight(procs[i])
    /\ LET p == procs[i]
           r == OnExit(exitCode, p.stdout, p.merge, wordCount, texCountMessage)
       IN  /\ wordCount' = r.wordCount
           /\ texCountMessage' = r.texCountMessage
           /\ microtasks' = IF r.resolved THEN Append(microtasks, Then(p)) ELSE microtasks
           /\ effects' = [NoEffects EXCEPT !.errors = r.errors, !.log = r.log]
           /\ event' = [type |-> "exit", kind |-> p.kind, merge |-> p.merge,
                        code |-> exitCode, stdout |-> p.stdout, state |-> p.state,
                        overtaken |-> \E j \in (i + 1)..Len(procs) :
                                          procs[j].state = "resolved"]
           /\ procs' = Over(i, r.resolved)
    /\ before' = Fields
    /\ UNCHANGED <<viewer, settings, activeTextEditor, config,
                   disableCountAfterSave, status, timers>>

\* proc.on('exit'): the process exits (after a failed launch it may or may not)
ProcExit(i, exitCode) ==
    /\ microtasks = <<>>
    /\ InFlight(procs[i])
    /\ LET p == procs[i]
           r == OnExit(exitCode, p.stdout, p.merge, wordCount, texCountMessage)
       IN  /\ wordCount' = r.wordCount
           /\ texCountMessage' = r.texCountMessage
           /\ microtasks' = IF r.resolved THEN <<Then(p)>> ELSE microtasks
           /\ effects' = [NoEffects EXCEPT !.errors = r.errors, !.log = r.log]
           /\ event' = [type |-> "exit", kind |-> p.kind, merge |-> p.merge,
                        code |-> exitCode, stdout |-> p.stdout, state |-> p.state,
                        overtaken |-> \E j \in (i + 1)..Len(procs) :
                                          procs[j].state = "resolved"]
           /\ procs' = Over(i, r.resolved)
    /\ before' = Fields
    /\ UNCHANGED <<viewer, settings, activeTextEditor, config,
                   disableCountAfterSave, status, timers>>

\* a process that could not be launched goes away without an 'exit' event
ProcGone(i) ==
    /\ microtasks = <<>>
    /\ procs[i].state = "errored"
    /\ procs' = Over(i, FALSE)
    /\ event' = [Ev("gone") EXCEPT !.state = procs[i].state]
    /\ before' = Fields
    /\ effects' = NoEffects
    /\ UNCHANGED <<viewer, settings, activeTextEditor, config,
                   disableCountAfterSave, texCountMessage, wordCount, status,
                   timers, microtasks>>

\* the callback, were it scheduled by setInterval: it stays pending
TimerFiredRepeats(i) ==
    /\ microtasks = <<>>
    /\ timers' = timers
    /\ disableCountAfterSave' = FALSE
    /\ event' = Ev("timer")
    /\ before' = Fields
    /\ effects' = NoEffects
    /\ UNCHANGED <<viewer, settings, activeTextEditor, config, texCountMessage,
                   wordCount, status, procs, microtasks>>

\* the callback of setTimeout: this.disableCountAfterSave = false
TimerFired(i) ==
    /\ microtasks = <<>>
    /\ timers' = Remove(timers, i)
    /\ disableCountAfterSave' = FALSE
    /\ event' = Ev("timer")
    /\ before' = Fields
    /\ effects' = NoEffects
    /\ UNCHANGED <<viewer, settings, activeTextEditor, config, texCountMessage,
                   wordCount, status, procs, microtasks>>

\* the continuation a resolved promise runs:
\*   save:   this.updateWordCount()
\*   manual: vscode.window.showInformationMessage(this.texCountMessage)
Continuation ==
    /\ microtasks # <<>>
    /\ microtasks' = Tail(microtasks)
    /\ IF Head(microtasks).kind = "save"
       THEN /\ status' = UpdateWordCount(status, wordCount, texCountMessage)
            /\ effects' = [NoEffects EXCEPT !.refreshed = TRUE]
       ELSE /\ effects' = [NoEffects EXCEPT !.info = <<texCountMessage>>]
            /\ UNCHANGED status
    /\ event' = [Ev("then") EXCEPT !.kind = Head(microtasks).kind,
                                    !.merge = Head(microtasks).merge,
                                    !.stdout = Head(microtasks).stdout]
    /\ before' = Fields
    /\ UNCHANGED <<viewer, settings, activeTextEditor, config,
                   disableCountAfterSave, texCountMessage, wordCount, timers,
                   procs>>

Next ==
    \/ \E f \in EditedFolders, c \in Configs : DidChangeConfiguration(f, c)
    \/ \E e \in Editors : DidChangeActiveTextEditor(e)
    \/ \E file \in Files, plat \in Platforms :
          CountOnSaveIfEnabled(file, plat, MaxInFlight)
    \/ \E file \in Files, merge \in BOOLEAN, plat \in Platforms :
          Count(file, merge, plat, MaxInFlight)
    \/ \E i \in 1..Len(procs) : \E chunk \in NextChunks(Writes, procs[i].written) :
          StdoutData(i, chunk)
    \/ \E i \in 1..Len(procs) : ProcError(i)
    \/ \E i \in 1..Len(procs), c \in ExitCodes : ProcExit(i, c)
    \/ \E i \in 1..Len(procs) : ProcGone(i)
    \/ \E i \in 1..Len(timers) : TimerFired(i)
    \/ Continuation

Spec == Init /\ [][Next]_vars

\* --------------------------------------------- runs under a fixed configuration
\* The configuration is not edited and the editor stays on the LaTeX document;
\* processes report two different word counts.
RunWrites == { <<>>, <<Counts>>, << <<WordsLit, "7", "\n">> >> }

RunInit ==
    /\ Init
    /\ activeTextEditor # <<>>
    /\ HasTexId(activeTextEditor[1].languageId)

RunNext ==
    \/ \E file \in Files, plat \in Platforms :
          CountOnSaveIfEnabled(file, plat, MaxRuns)
    \/ \E file \in Files, merge \in BOOLEAN, plat \in Platforms :
          Count(file, merge, plat, MaxRuns)
    \/ \E i \in 1..Len(procs) : \E chunk \in NextChunks(RunWrites, procs[i].written) :
          StdoutData(i, chunk)
    \/ \E i \in 1..Len(procs) : ProcError(i)
    \/ \E i \in 1..Len(procs), c \in ExitCodes : ProcExit(i, c)
    \/ \E i \in 1..Len(procs) : ProcGone(i)
    \/ \E i \in 1..Len(timers) : TimerFired(i)
    \/ Continuation

RunSpec == RunInit /\ [][RunNext]_vars

\* The event loop runs every expired timer and every ready continuation.
FairNext ==
    \/ \E file \in Files, plat \in Platforms :
          CountOnSaveIfEnabled(file, plat, MaxInFlight)
    \/ \E file \in Files, merge \in BOOLEAN, plat \in Platforms :
          Count(file, merge, plat, MaxInFlight)
    \/ \E i \in 1..Len(procs) : \E chunk \in NextChunks(RunWrites, procs[i].written) :
          StdoutData(i, chunk)
    \/ \E i \in 1..Len(procs) : ProcError(i)
    \/ \E i \in 1..Len(procs), c \in ExitCodes : ProcExit(i, c)
    \/ \E i \in 1..Len(procs) : ProcGone(i)
    \/ \E i \in 1..Len(timers) : TimerFired(i)
    \/ Continuation

FairSpec ==
    /\ RunInit /\ [][FairNext]_vars
    /\ SF_vars(\E i \in 1..Len(timers) : TimerFired(i))
    /\ WF_vars(Continuation)

\* ------------------------------------------------ the exit handler on any output
\* length of the outputs tried
MaxLen == 4
Tokens == {WordsLit, FloatsLit, "0", "1", "2", "\n"}
\* the outputs of section 8 of the specification
Examples ==
    { <<WordsLit, "4", "2", "\n", FloatsLit, "0", "\n">>,
      <<WordsLit, "1", "0", "0", "\n", FloatsLit, "3", "\n">> }
Outputs == UNION {[1..n -> Tokens] : n \in 0..MaxLen} \cup Examples
\* what an earlier run may have stored
Stored ==
    { [wordCount |-> <<>>, texCountMessage |-> <<>>],
      [wordCount |-> <<"5">>,
       texCountMessage |-> TeXCountMessage(<<"5">>, <<>>, TRUE)] }

\* one run in flight whose process has written all its output
ParseInit ==
    /\ settings = [f \in Folders |-> DefaultConfig]
    /\ activeTextEditor = <<>>
    /\ autoRunEnabled = FALSE
    /\ autoRunInterval = DefaultConfig.interval
    /\ commandArgs = DefaultConfig.args
    /\ commandPath = DefaultConfig.path
    /\ useDocker = DefaultConfig.docker
    /\ disableCountAfterSave = FALSE
    /\ \E st \in Stored :
          /\ wordCount = st.wordCount
          /\ texCountMessage = st.texCountMessage
    /\ status = [visible |-> FALSE, text |-> <<>>, tooltip |-> <<>>]
    /\ timers = <<>>
    /\ \E kind \in {"save", "manual"}, merge \in BOOLEAN, out \in Outputs :
          /\ kind = "save" => merge
          /\ procs = <<[SpawnedProc(kind, merge) EXCEPT !.stdout = out,
                                                        !.written = <<out>>]>>
    /\ microtasks = <<>>
    /\ event = Ev("data")
    /\ effects = NoEffects
    /\ before = Fields
    /\ viewer = <<>>

ParseNext ==
    \/ \E i \in 1..Len(procs), c \in ExitCodes : ProcExit(i, c)
    \/ Continuation

ParseSpec == ParseInit /\ [][ParseNext]_vars

\* ------------------------------------------- the viewer's print shortcut
\* event.keyCode of the keys pressed: P and another key
KeyCodes == {80, 65}
\* the keydown events: the key and the modifiers held
KeyEvents ==
    [keyCode : KeyCodes, ctrlKey : BOOLEAN, metaKey : BOOLEAN, altKey : BOOLEAN,
     shiftKey : BOOLEAN]
\* the windows a viewer runs in: embedded is window.parent !== window, chrome
\* and opera are whether window.chrome and window.opera are set
Windows == [embedded : BOOLEAN, chrome : BOOLEAN, opera : BOOLEAN, keydown : {<<>>}]

\* the condition of the listener's outer if
IsPrintShortcut(e, w) ==
    /\ e.keyCode = 80
    /\ e.ctrlKey \/ e.metaKey
    /\ ~e.altKey
    /\ ~e.shiftKey \/ w.chrome \/ w.opera

\* the listener as it was before the patch
OnKeydownUnpatched(e, w) ==
    IF IsPrintShortcut(e, w)
    THEN [printed |-> TRUE, defaultPrevented |-> TRUE, propagationStopped |-> TRUE]
    ELSE [printed |-> FALSE, defaultPrevented |-> FALSE, propagationStopped |-> FALSE]

\* the keydown listener: whether it called window.print(),
\* event.preventDefault() and event.stopImmediatePropagation()
OnKeydown(e, w) ==
    IF IsPrintShortcut(e, w) /\ ~w.embedded
    THEN [printed |-> TRUE, defaultPrevented |-> TRUE, propagationStopped |-> TRUE]
    ELSE [printed |-> FALSE, defaultPrevented |-> FALSE, propagationStopped |-> FALSE]

\* a viewer is open; the Counter is as constructed with the default settings
ViewerInit ==
    /\ settings = [f \in Folders |-> DefaultConfig]
    /\ activeTextEditor = <<>>
    /\ autoRunEnabled = FALSE
    /\ autoRunInterval = DefaultConfig.interval
    /\ commandArgs = DefaultConfig.args
    /\ commandPath = DefaultConfig.path
    /\ useDocker = DefaultConfig.docker
    /\ disableCountAfterSave = FALSE
    /\ wordCount = <<>>
    /\ texCountMessage = <<>>
    /\ status = [visible |-> FALSE, text |-> <<>>, tooltip |-> <<>>]
    /\ timers = <<>>
    /\ procs = <<>>
    /\ microtasks = <<>>
    /\ event = Ev("constructor")
    /\ effects = NoEffects
    /\ before = Fields
    /\ viewer \in {<<w>> : w \in Windows}

\* a key goes down in the viewer's window
Keydown(e) ==
    /\ viewer # <<>>
    /\ viewer' = <<[viewer[1] EXCEPT !.keydown = <<[event |-> e,
                                                    did |-> OnKeydown(e, viewer[1])]>>]>>
    /\ UNCHANGED <<settings, activeTextEditor, config, disableCountAfterSave,
                   texCountMessage, wordCount, status, timers, procs, microtasks,
                   event, effects, before>>

ViewerNext == \E e \in KeyEvents : Keydown(e)

ViewerSpec == ViewerInit /\ [][ViewerNext]_vars

\* ------------------------------------------------------------------- claims
\* the last callback was the exit handler of a run that parsed its output
ExitOk ==
    /\ event.type = "exit"
    /\ event.code = 0
    /\ WordsLit \in Range(event.stdout)
\* the last callback left wordCount and texCountMessage as it found them
ResultKept ==
    /\ wordCount = before.wordCount
    /\ texCountMessage = before.texCountMessage
\* the digits that follow the first occurrence of lit in s
Numeral(lit, s) ==
    LET k == CHOOSE i \in 1..Len(s) : s[i] = lit /\ lit \notin Range(SubSeq(s, 1, i - 1))
        n == CHOOSE m \in 0..(Len(s) - k) :
                 /\ Range(SubSeq(s, k + 1, k + m)) \subseteq Digits
                 /\ k + m = Len(s) \/ s[k + m + 1] \notin Digits
    IN  SubSeq(s, k + 1, k + n)
\* the last piece but one of a stored message
Noun(merge) == IF merge THEN "LaTeX project" ELSE "opened LaTeX file"

\* C1: while a reset timer scheduled by a save-triggered run is pending, a
\* call of countOnSaveIfEnabled spawns no process; a call that spawns found no
\* timer pending and schedules one with the autoRunInterval in force.
C1_Debounce ==
    /\ event.type = "save" /\ before.timers > 0 => effects.spawned = <<>>
    /\ event.type = "save" /\ effects.spawned # <<>> =>
          /\ before.timers = 0
          /\ timers = <<autoRunInterval>>
C1_Witness ==
    /\ event.type = "save"
    /\ autoRunEnabled
    /\ before.timers > 0
    /\ before.inFlight > 0
    /\ effects.spawned = <<>>

\* C2: whenever autoRunEnabled is false the status item is hidden, and a
\* countOnSaveIfEnabled call then spawns nothing and leaves
\* disableCountAfterSave, wordCount and texCountMessage as they were.
C2_AutoRunOff ==
    /\ ~autoRunEnabled => ~status.visible
    /\ event.type = "save" /\ ~autoRunEnabled =>
          /\ effects.spawned = <<>>
          /\ disableCountAfterSave = before.disableCountAfterSave
          /\ ResultKept
C2_Witness ==
    /\ event.type = "save"
    /\ ~autoRunEnabled
    /\ disableCountAfterSave
    /\ wordCount # <<>>
    /\ ~status.visible

\* C3: between callbacks, wordCount and texCountMessage are both empty or
\* texCountMessage is the message built from the stored wordCount; a callback
\* that changes either is the exit handler of one run and stores that run's
\* word count and that run's message.
C3_WrittenTogether ==
    /\ \/ wordCount = <<>> /\ texCountMessage = <<>>
       \/ \E merge \in BOOLEAN :
             /\ Len(texCountMessage) >= Len(wordCount) + 5
             /\ SubSeq(texCountMessage, 1, Len(wordCount) + 2)
                   = <<"There are ">> \o wordCount \o <<" words ">>
             /\ SubSeq(texCountMessage, Len(texCountMessage) - 2, Len(texCountMessage))
                   = <<"in the ", Noun(merge), ".">>
    /\ ~ResultKept =>
          /\ ExitOk
          /\ wordCount = Numeral(WordsLit, event.stdout)
          /\ SubSeq(texCountMessage, 1, Len(wordCount) + 2)
                = <<"There are ">> \o Numeral(WordsLit, event.stdout) \o <<" words ">>
          /\ texCountMessage[Len(texCountMessage) - 1] = Noun(event.merge)
C3_Witness ==
    /\ ExitOk
    /\ before.inFlight = 2
    /\ before.wordCount # <<>>
    /\ wordCount # before.wordCount

\* C4: disableCountAfterSave, once true, is reset to false, and only the timer
\* resets it, whatever becomes of the process.
C4_FlagReset ==
    /\ [](before.disableCountAfterSave /\ ~disableCountAfterSave => event.type = "timer")
    /\ (disableCountAfterSave ~> ~disableCountAfterSave)
C4_Witness ==
    /\ event.type = "timer"
    /\ before.disableCountAfterSave
    /\ ~disableCountAfterSave
    /\ \E i \in 1..Len(procs) : procs[i].kind = "save" /\ procs[i].state = "running"

\* C5: an exit with a non-zero code shows the fixed error notification, keeps
\* wordCount and texCountMessage and readies no continuation; a continuation is
\* ready only right after an exit with code 0.
C5_NonZeroExit ==
    /\ event.type = "exit" /\ event.code # 0 =>
          /\ effects.errors = <<"TeXCount failed. Please refer to LaTeX Workshop Output for details.">>
          /\ ResultKept
          /\ microtasks = <<>>
          /\ effects.info = <<>>
          /\ ~effects.refreshed
    /\ microtasks # <<>> => event.type = "exit" /\ event.code = 0
C5_Witness ==
    /\ event.type = "exit"
    /\ event.code = 2
    /\ WordsLit \in Range(event.stdout)
    /\ wordCount # <<>>
    /\ wordCount # Numeral(WordsLit, event.stdout)

\* C6: the error handler logs, shows the fixed error notification, keeps
\* wordCount and texCountMessage and readies no continuation, and neither does
\* an exit that follows the error.
C6_LaunchFailure ==
    /\ event.type = "error" =>
          /\ effects.log = <<"Cannot count words.">>
          /\ effects.errors = <<"TeXCount failed. Please refer to LaTeX Workshop Output for details.">>
          /\ ResultKept
          /\ microtasks = <<>>
    /\ event.type \in {"exit", "gone"} /\ event.state = "errored" =>
          /\ ResultKept
          /\ microtasks = <<>>
C6_Witness ==
    /\ event.type = "exit"
    /\ event.state = "errored"
    /\ event.code = 0
    /\ wordCount # <<>>

\* C7: an exit with code 0 whose stdout lacks the word-count pattern logs
\* nothing, notifies nothing, keeps wordCount and texCountMessage and readies
\* no continuation; every continuation that runs is of a run whose stdout had
\* the pattern.
C7_Unparseable ==
    /\ event.type = "exit" /\ event.code = 0 /\ WordsLit \notin Range(event.stdout) =>
          /\ effects.log = <<>>
          /\ effects.errors = <<>>
          /\ ResultKept
          /\ microtasks = <<>>
    /\ event.type = "then" => WordsLit \in Range(event.stdout)
C7_Witness ==
    /\ event.type = "exit"
    /\ event.code = 0
    /\ event.stdout = <<FloatsLit, "2", "\n">>
    /\ wordCount = <<"5">>
    /\ procs = <<>>

\* C8: the stored result is that of the run whose process exited last with
\* code 0 and parseable output, whichever run was started first: such an exit
\* stores its run's result, and no other callback changes the stored result.
C8_LastWriteWins ==
    IF ExitOk
    THEN /\ wordCount = RegexExec(WordsLit, event.stdout)[1]
         /\ texCountMessage =
               TeXCountMessage(RegexExec(WordsLit, event.stdout)[1],
                               FloatMsg(RegexExec(FloatsLit, event.stdout)),
                               event.merge)
    ELSE ResultKept
C8_Witness ==
    /\ ExitOk
    /\ event.overtaken
    /\ before.wordCount # <<>>
    /\ wordCount # before.wordCount

\* C9: after an exit with code 0 whose stdout has the word count N and the
\* float count M, wordCount is N and texCountMessage is "There are N words ",
\* then "and M float (tables, figures, etc.) " if M is 1, the same with
\* "floats" if M is more than 1, nothing if M is 0 or absent, then "in the
\* LaTeX project." or "in the opened LaTeX file." by merge.
C9_Message ==
    ExitOk =>
        LET N == Numeral(WordsLit, event.stdout)
            hasM == FloatsLit \in Range(event.stdout)
                    /\ Numeral(FloatsLit, event.stdout) # <<>>
            M == Numeral(FloatsLit, event.stdout)
            clause == IF ~hasM \/ DigitsValue(M) = 0 THEN <<>>
                      ELSE IF DigitsValue(M) = 1
                      THEN <<"and ">> \o M \o <<" float", " (tables, figures, etc.) ">>
                      ELSE <<"and ">> \o M \o <<" float", "s", " (tables, figures, etc.) ">>
        IN  /\ wordCount = N
            /\ texCountMessage = <<"There are ">> \o N \o <<" words ">> \o clause
                                 \o <<"in the ", Noun(event.merge), ".">>
            /\ event.stdout = <<WordsLit, "4", "2", "\n", FloatsLit, "0", "\n">> =>
                  /\ wordCount = <<"4", "2">>
                  /\ Len(texCountMessage) = 7
            /\ event.stdout = <<WordsLit, "1", "0", "0", "\n", FloatsLit, "3", "\n">>
               /\ ~event.merge =>
                  texCountMessage = <<"There are ", "1", "0", "0", " words ", "and ", "3",
                                      " float", "s", " (tables, figures, etc.) ", "in the ",
                                      "opened LaTeX file", ".">>
C9_Witness ==
    /\ ExitOk
    /\ event.stdout = <<WordsLit, "1", "0", "0", "\n", FloatsLit, "3", "\n">>
    /\ ~event.merge
    /\ wordCount = <<"1", "0", "0">>

\* C10: a refresh of the display leaves text and tooltip empty if wordCount is
\* empty and else the text "<wordCount> words" and the tooltip texCountMessage;
\* the continuation of a save-triggered run refreshes, and the status then
\* shows the result of that run.
C10_Refresh ==
    /\ effects.refreshed =>
          IF wordCount = <<>>
          THEN status.text = <<>> /\ status.tooltip = <<>>
          ELSE status.text = wordCount \o <<" words">> /\ status.tooltip = texCountMessage
    /\ event.type = "then" /\ event.kind = "save" =>
          /\ effects.refreshed
          /\ LET N == Numeral(WordsLit, event.stdout)
             IN  IF N = <<>>
                 THEN status.text = <<>> /\ status.tooltip = <<>>
                 ELSE /\ status.text = N \o <<" words">>
                      /\ status.tooltip =
                            TeXCountMessage(N, FloatMsg(RegexExec(FloatsLit, event.stdout)),
                                            event.merge)
C10_Witness ==
    /\ event.type = "then"
    /\ event.kind = "save"
    /\ status.visible
    /\ status.text = <<"1", "0", "0", " words">>

\* the five configuration fields
Loaded ==
    [autoRunEnabled |-> autoRunEnabled, autoRunInterval |-> autoRunInterval,
     commandArgs |-> commandArgs, commandPath |-> commandPath,
     useDocker |-> useDocker]
\* the five fields a configuration gives
Read(conf) ==
    [autoRunEnabled |-> conf.autorun = "onSave", autoRunInterval |-> conf.interval,
     commandArgs |-> conf.args, commandPath |-> conf.path, useDocker |-> conf.docker]
\* what the current scope gives after a step
Current == Read(settings[GetWorkspace(activeTextEditor)])
\* a step that changes a texcount setting of the current scope, or docker.enabled
SettingsChange ==
    \/ AffectsTexcount(settings, settings', GetWorkspace(activeTextEditor))
    \/ AffectsDocker(settings, settings')
TexEditor(e) == e # <<>> /\ HasTexId(e[1].languageId)

\* C11 (as stated): after every settings change affecting the scope and after
\* every change of the active editor, whatever the new one is (none included),
\* the five configuration fields are those the configuration of the current
\* scope gives.
C11_Original ==
    [][SettingsChange \/ activeTextEditor' # activeTextEditor => Loaded' = Current']_vars

\* C11 (amended): after every settings change affecting the scope and after
\* every change of the active editor to a TeX document, the five fields are
\* those the configuration of the current scope gives; a change of the active
\* editor to another document or to none leaves the five fields as they are;
\* and no step changes the fields other than to what the current scope gives.
C11_Reloaded ==
    [][/\ SettingsChange => Loaded' = Current'
       /\ activeTextEditor' # activeTextEditor =>
             IF TexEditor(activeTextEditor') THEN Loaded' = Current'
                                             ELSE Loaded' = Loaded
       /\ Loaded' # Loaded => Loaded' = Current']_vars
C11_Witness ==
    /\ event.type = "configuration"
    /\ effects.refreshed
    /\ Loaded = Current
    /\ useDocker
    /\ commandArgs # <<>>

\* a step after which the listeners call updateStatusVisibility as the claim has it
AnyChange == SettingsChange \/ activeTextEditor' # activeTextEditor
\* what the status item displays for the stored result
Shown ==
    [visible |-> TRUE,
     text |-> IF wordCount = <<>> THEN <<>> ELSE wordCount \o <<" words">>,
     tooltip |-> IF wordCount = <<>> THEN <<>> ELSE texCountMessage]

\* C12 (as stated): after every settings change and every change of the active
\* editor, if auto-run is enabled a run of the counting tool has been started
\* and the status item is visible, and otherwise the status item is hidden.
C12_Original ==
    [][AnyChange =>
          IF autoRunEnabled' THEN effects'.spawned # <<>> /\ status'.visible
                             ELSE ~status'.visible]_vars

\* C12 (amended): after every settings change affecting the scope and every
\* change of the active editor to a TeX document, if auto-run is enabled the
\* status item is visible and displays the stored result (text and tooltip
\* empty if wordCount is empty), and otherwise the item is hidden with its text
\* as it was; no process is started and the stored result is left alone. After
\* a change of the active editor to another document or to none the item is
\* hidden, whatever autoRunEnabled is.
C12_Visibility ==
    [][AnyChange =>
          /\ effects'.spawned = <<>>
          /\ UNCHANGED <<procs, wordCount, texCountMessage>>
          /\ IF activeTextEditor' # activeTextEditor /\ ~TexEditor(activeTextEditor')
             THEN status' = [status EXCEPT !.visible = FALSE]
             ELSE IF autoRunEnabled'
                  THEN status' = Shown
                  ELSE status' = [status EXCEPT !.visible = FALSE]]_vars
C12_Witness ==
    /\ event.type = "editor"
    /\ TexEditor(activeTextEditor)
    /\ autoRunEnabled
    /\ effects.refreshed
    /\ effects.spawned = <<>>
    /\ procs = <<>>
    /\ status = Shown
    /\ status.text = <<"1", "0", "0", " words">>

\* the processes in flight
Running == SelectSeq(procs, InFlight)

\* C13: every call of count(file, merge) starts one process, whatever
\* disableCountAfterSave and autoRunEnabled are and whatever is in flight: the
\* processes in flight are those there were and the new one; the call leaves
\* disableCountAfterSave and the pending timers as they are.
C13_NeverDebounced ==
    event.type = "count" =>
        /\ Len(effects.spawned) = 1
        /\ Len(Running) = before.inFlight + 1
        /\ Running[Len(Running)].kind = "manual"
        /\ disableCountAfterSave = before.disableCountAfterSave
        /\ Len(timers) = before.timers
C13_Witness ==
    /\ event.type = "count"
    /\ disableCountAfterSave
    /\ Len(timers) = 1
    /\ Len(Running) = 2
    /\ Running[1].kind = "save"
    /\ Running[2].kind = "manual"
\* (also reached: a manual count next to another with auto-run off)
CountWhileOff ==
    /\ event.type = "count"
    /\ ~autoRunEnabled
    /\ Len(Running) = 2

\* C14: the arguments of every run are the configured arguments, then "-merge"
\* if merge is true and "-merge" is not among them, then the base name of the
\* file (the working directory being the file's directory); and commandArgs
\* stays what the configuration gives, whatever runs there were.
C14_Args ==
    LET conf == settings[GetWorkspace(activeTextEditor)].args
    IN  /\ commandArgs = conf
        /\ effects.spawned # <<>> =>
              LET call == effects.spawned[1]
                  merge == event.type = "save" \/ event.merge
              IN  \E file \in Files :
                     /\ call.cwd = SubSeq(file, 1, Len(file) - 1)
                     /\ call.args =
                           conf
                           \o (IF merge /\ ~(\E i \in 1..Len(conf) : conf[i] = "-merge")
                               THEN <<"-merge">> ELSE <<>>)
                           \o <<file[Len(file)]>>
C14_Witness ==
    /\ event.type = "count"
    /\ before.inFlight > 0
    /\ commandArgs = <<>>
    /\ effects.spawned # <<>>
    /\ effects.spawned[1].args = <<"-merge", "intro.tex">>

\* C15: a callback starts at most one process, and only a save or a manual
\* count starts one; a launch failure, an exit (non-zero, or with output that
\* does not parse) and every other callback start none: after an 'exit' or
\* once a failed launch is gone there is one process less in flight, after
\* any other callback as many as before.
C15_NoRetry ==
    /\ Len(effects.spawned) <= 1
    /\ effects.spawned # <<>> => event.type \in {"save", "count"}
    /\ event.type \in {"save", "count"} =>
          Len(Running) = before.inFlight + Len(effects.spawned)
    /\ event.type \in {"exit", "gone"} => Len(Running) = before.inFlight - 1
    /\ event.type \notin {"save", "count", "exit", "gone"} =>
          Len(Running) = before.inFlight
C15_Witness ==
    /\ event.type = "exit"
    /\ event.code = 0
    /\ event.stdout = <<>>
    /\ before.inFlight = 1
    /\ procs = <<>>
    /\ microtasks = <<>>

\* C16: at most one reset timer is pending, and disableCountAfterSave is true
\* exactly while one is; so the timer that clears the flag is the one the
\* latest save-triggered run scheduled, and none is left pending after it.
C16_OneTimer ==
    /\ Len(timers) <= 1
    /\ disableCountAfterSave <=> Len(timers) = 1
    /\ event.type = "timer" => before.timers = 1 /\ before.disableCountAfterSave
    /\ event.type = "save" /\ effects.spawned # <<>> =>
          before.timers = 0 /\ timers = <<autoRunInterval>>
C16_Witness ==
    /\ event.type = "save"
    /\ effects.spawned # <<>>
    /\ wordCount # <<>>
    /\ disableCountAfterSave
    /\ Len(timers) = 1

\* C17: the popup a manual count shows on completion is the message of that
\* run's own output and merge, whatever other runs there are: the continuation
\* runs before any other exit handler can store another result.
C17_OwnMessage ==
    event.type = "then" /\ event.kind = "manual" =>
        LET N == Numeral(WordsLit, event.stdout)
        IN  /\ effects.info =
                  << <<"There are ">> \o N \o <<" words ">>
                     \o FloatMsg(RegexExec(FloatsLit, event.stdout))
                     \o <<"in the ", Noun(event.merge), ".">> >>
            /\ effects.info = <<texCountMessage>>
            /\ wordCount = N
C17_Witness ==
    /\ event.type = "then"
    /\ event.kind = "manual"
    /\ before.inFlight > 0
    /\ \E i \in 1..Len(procs) : procs[i].state = "running" /\ procs[i].stdout # <<>>
                                /\ procs[i].stdout # event.stdout
    /\ effects.info # <<>>

\* C18: whenever a run resolves (an exit with code 0 whose stdout has "Words in
\* text: "), the stored wordCount is a non-empty string of digits; and after
\* the continuation of a save-triggered run the status text is not empty.
C18_NonEmptyCount ==
    /\ ExitOk =>
          /\ microtasks # <<>>
          /\ wordCount # <<>>
          /\ Range(wordCount) \subseteq Digits
    /\ event.type = "then" /\ event.kind = "save" => status.text # <<>>

\* C19: on Ctrl+P or Cmd+P (as the listener recognises it) a viewer embedded in
\* an iframe does not print and neither prevents the default action nor stops
\* the propagation of the event; a top-level viewer prints and does both; on
\* any other key the listener does nothing.
C19_PrintShortcut ==
    viewer # <<>> /\ viewer[1].keydown # <<>> =>
        LET w == viewer[1]
            e == w.keydown[1].event
            did == w.keydown[1].did
            shortcut == /\ e.keyCode = 80 /\ (e.ctrlKey \/ e.metaKey) /\ ~e.altKey
                        /\ (~e.shiftKey \/ w.chrome \/ w.opera)
        IN  IF shortcut /\ ~w.embedded
            THEN did.printed /\ did.defaultPrevented /\ did.propagationStopped
            ELSE ~did.printed /\ ~did.defaultPrevented /\ ~did.propagationStopped
C19_Witness ==
    /\ viewer # <<>>
    /\ viewer[1].embedded
    /\ viewer[1].keydown # <<>>
    /\ viewer[1].keydown[1].event =
          [keyCode |-> 80, ctrlKey |-> TRUE, metaKey |-> FALSE, altKey |-> FALSE,
           shiftKey |-> FALSE]
    /\ ~viewer[1].keydown[1].did.printed

====
